---- MODULE Spec2Model ----
(***************************************************************************)
(* Household chore bot (src/bot.py): the relational store (household,      *)
(* chores, completions, sessions), the command / button / wizard handlers, *)
(* and the once-a-minute reminder scan, as a state machine.                *)
(*                                                                         *)
(* Representation.  Text typed by a user is a sequence of one-character    *)
(* strings, so that len(), isdigit(), int(), lower() and the regular       *)
(* expressions are computed, not assumed.  A stored date string            *)
(* "YYYY-MM-DD" is the tuple <<y, m, d>> and a stored time string "HH:MM"  *)
(* the tuple <<hh, mm>>: both formats are fixed-width and zero-padded, so  *)
(* two such strings are equal exactly when the tuples are.  A              *)
(* datetime.date is its proleptic Gregorian ordinal (date.toordinal()).    *)
(* SQL NULL / Python None is the empty tuple.                              *)
(*                                                                         *)
(* Granularity.  Handlers run on telebot's worker threads and the scan on  *)
(* the scheduler's thread, all sharing one sqlite connection: one SQL      *)
(* statement (execute + fetch) is one atomic step, and the wall clock may  *)
(* advance between any two steps.                                          *)
(***************************************************************************)
EXTENDS Integers, Sequences, FiniteSets, TLC

NULL == <<>>

\* ------------------------------------------------------------------ text

Digits == {"0", "1", "2", "3", "4", "5", "6", "7", "8", "9"}

DigitVal(c) ==
    CASE c = "0" -> 0 [] c = "1" -> 1 [] c = "2" -> 2 [] c = "3" -> 3
      [] c = "4" -> 4 [] c = "5" -> 5 [] c = "6" -> 6 [] c = "7" -> 7
      [] c = "8" -> 8 [] c = "9" -> 9

\* str.isdigit(): non-empty and every character a digit.
IsDigit(s) == Len(s) > 0 /\ \A i \in 1..Len(s) : s[i] \in Digits

RECURSIVE IntOf(_)
\* int(s) of a string of digits.
IntOf(s) ==
    IF Len(s) = 0 THEN 0
    ELSE 10 * IntOf(SubSeq(s, 1, Len(s) - 1)) + DigitVal(s[Len(s)])

LowerChar(c) ==
    CASE c = "A" -> "a" [] c = "C" -> "c" [] c = "D" -> "d" [] c = "E" -> "e"
      [] c = "K" -> "k" [] c = "O" -> "o" [] c = "R" -> "r" [] c = "T" -> "t"
      [] c = "Y" -> "y"
      [] OTHER -> c

\* str.lower()
Lower(s) == [i \in 1..Len(s) |-> LowerChar(s[i])]

RECURSIVE LStrip(_)
LStrip(s) == IF Len(s) > 0 /\ s[1] = " " THEN LStrip(Tail(s)) ELSE s

RECURSIVE RStrip(_)
RStrip(s) ==
    IF Len(s) > 0 /\ s[Len(s)] = " " THEN RStrip(SubSeq(s, 1, Len(s) - 1)) ELSE s

\* str.strip()
Strip(s) == RStrip(LStrip(s))

\* "%02d" of a number below 100, and its inverse on two digits.
TwoDigits(s) == Len(s) = 2 /\ s[1] \in Digits /\ s[2] \in Digits

\* -------------------------------------------------------------- calendar
\* datetime.date arithmetic as CPython computes it (_ymd2ord, _ord2ymd).

IsLeap(y) == y % 4 = 0 /\ (y % 100 # 0 \/ y % 400 = 0)

DaysInMonth(y, m) ==
    IF m = 2 THEN (IF IsLeap(y) THEN 29 ELSE 28)
    ELSE IF m \in {4, 6, 9, 11} THEN 30 ELSE 31

DaysBeforeMonthTable == <<0, 31, 59, 90, 120, 151, 181, 212, 243, 273, 304, 334>>

DaysBeforeMonth(y, m) ==
    DaysBeforeMonthTable[m] + (IF m > 2 /\ IsLeap(y) THEN 1 ELSE 0)

DaysBeforeYear(y) ==
    (y - 1) * 365 + ((y - 1) \div 4) - ((y - 1) \div 100) + ((y - 1) \div 400)

\* date(y, m, d).toordinal()
YmdToOrd(y, m, d) == DaysBeforeYear(y) + DaysBeforeMonth(y, m) + d

\* date.fromordinal(n) as <<y, m, d>>
OrdToYmd(ord) ==
    LET n0   == ord - 1
        n400 == n0 \div 146097
        r400 == n0 % 146097
        n100 == r400 \div 36524
        r100 == r400 % 36524
        n4   == r100 \div 1461
        r4   == r100 % 1461
        n1   == r4 \div 365
        n    == r4 % 365
        year == n400 * 400 + 1 + n100 * 100 + n4 * 4 + n1
    IN  IF n1 = 4 \/ n100 = 4 THEN <<year - 1, 12, 31>>
        ELSE
          LET leap   == n1 = 3 /\ (n4 # 24 \/ n100 = 3)
              guess  == (n + 50) \div 32
              before == DaysBeforeMonthTable[guess]
                          + (IF guess > 2 /\ leap THEN 1 ELSE 0)
              month  == IF before > n THEN guess - 1 ELSE guess
              prec   == IF before > n
                        THEN before - (DaysInMonth(year, guess - 1))
                        ELSE before
          IN  <<year, month, n - prec + 1>>

\* A well-formed calendar date (what datetime.strptime accepts).
ValidYmd(y, m, d) == y >= 1 /\ m \in 1..12 /\ d >= 1 /\ d <= DaysInMonth(y, m)

\* datetime.strptime(iso, "%Y-%m-%d").date() of a stored date string
StrpDate(iso) == YmdToOrd(iso[1], iso[2], iso[3])

\* d.strftime("%Y-%m-%d")
StrfDate(ord) == OrdToYmd(ord)

\* datetime.now().strftime("%H:%M") of a minute of the day
StrfTime(minuteOfDay) == <<minuteOfDay \div 60, minuteOfDay % 60>>

\* ---------------------------------------------------------------- bounds

\* Days the wall clock may move past the first day of a run.
MaxDay == 1

\* Completion rows a run may log.
MaxCompletions == 2

\* Chores a run may create (ids 1..MaxChores).
MaxChores == 2

\* Cap on the household's rotation cursor.
MaxRotate == 3

\* ----------------------------------------------------------------- texts

Alice == <<"A", "l", "i", "c", "e">>
Bob == <<"B", "o", "b">>
Carol == <<"C", "a", "r", "o", "l">>
Dan == <<"D", "a", "n">>
Mop == <<"m", "o", "p">>
Cat == <<"c", "a", "t">>
Self == <<"s", "e", "l", "f">>

\* The two chat members and the first name Telegram reports for each.
Users == {"u1", "u2"}

FirstName(u) == IF u = "u1" THEN Alice ELSE Bob

\* telebot's worker threads (TeleBot's default pool of two).
Threads == {"t1", "t2"}

\* ----------------------------------------------------------------- state

VARIABLES
    today,        \* date.today(), as an ordinal
    minute,       \* datetime.now()'s minute of the day
    chatId,       \* whether the CHAT_ID environment variable is set
    household,    \* the household row: person1, person2, rotate_index
    chores,       \* table chores: id -> row
    seq,          \* chores' AUTOINCREMENT counter: the largest id ever used
    completions,  \* table completions, in insertion order
    sessions,     \* table sessions: (chat, user) -> [step, data]
    pc,           \* per worker thread: where its handler stands
    loc,          \* per worker thread: the handler's local variables
    scan,         \* reminder_job's position and local variables
    sentToday,    \* per chore id: reminders sent during the current calendar day
    eval,         \* what the last due-date evaluation returned
    reply         \* what the step just taken told the user, where a run records it

clockVars == <<today, minute, chatId>>
storeVars == <<household, chores, seq, completions, sessions>>
threadVars == <<pc, loc>>
vars == <<today, minute, chatId, household, chores, seq, completions, sessions,
          pc, loc, scan, sentToday, eval, reply>>

\* today_str()
TodayStr == StrfDate(today)

NoLoc == [op |-> "none"]
NoEval == [id |-> 0]
IdleScan == [pc |-> "idle"]
NoReply == ""

\* ------------------------------------------------------ due-date functions

\* next_due_date with the start date taking precedence over the last completion.
NextDueDate_StartFirst(start_date, last_done, interval_days, tdy) ==
    IF start_date # NULL THEN StrpDate(start_date)
    ELSE IF last_done # NULL THEN StrpDate(last_done) + interval_days
    ELSE tdy

\* next_due_date(start_date, last_done, interval_days), with date.today() = tdy
NextDueDate(start_date, last_done, interval_days, tdy) ==
    IF last_done # NULL THEN StrpDate(last_done) + interval_days
    ELSE IF start_date # NULL THEN StrpDate(start_date)
    ELSE tdy

\* days_until_due(chore_row), with date.today() = tdy
DaysUntilDue(c, tdy) ==
    NextDueDate(c.start_date, c.last_done, c.interval_days, tdy) - tdy

\* chore_is_due with a strict comparison: not yet due on the due date itself.
ChoreIsDue_Strict(c, tdy) ==
    IF c.skip_until = StrfDate(tdy) THEN FALSE
    ELSE NextDueDate(c.start_date, c.last_done, c.interval_days, tdy) - tdy < 0

\* chore_is_due(chore_row), with date.today() = tdy
ChoreIsDue(c, tdy) ==
    IF c.skip_until = StrfDate(tdy) THEN FALSE
    ELSE DaysUntilDue(c, tdy) <= 0

\* What /today works out for one chore: chore_is_due, days_until_due and, in
\* due_string, next_due_date.
Evaluate(t, id) ==
    /\ pc[t] = "idle"
    /\ id \in DOMAIN chores
    /\ eval' = [id       |-> id,
                on       |-> today,
                row      |-> chores[id],
                next_due |-> NextDueDate(chores[id].start_date, chores[id].last_done,
                                         chores[id].interval_days, today),
                days     |-> DaysUntilDue(chores[id], today),
                due      |-> ChoreIsDue(chores[id], today)]
    /\ UNCHANGED <<clockVars, storeVars, threadVars, scan, sentToday>>

\* ------------------------------------------------------- record_completion

\* The completion's UPDATE handing the chore over to whoever did it.
UpdateDone_Reassigns(chs, id, tstr) ==
    IF id \in DOMAIN chs
    THEN [chs EXCEPT ![id].last_done = tstr,
                     ![id].skip_until = NULL,
                     ![id].last_reminded = NULL,
                     ![id].assignee = IF @ = Alice THEN Bob ELSE Alice]
    ELSE chs

\* The completion's UPDATE leaving the skip mark in place.
UpdateDone_KeepsSkip(chs, id, tstr) ==
    IF id \in DOMAIN chs
    THEN [chs EXCEPT ![id].last_done = tstr, ![id].last_reminded = NULL]
    ELSE chs

\* UPDATE chores SET last_done=?, skip_until=NULL, last_reminded=NULL WHERE id=?
UpdateDone(chs, id, tstr) ==
    IF id \in DOMAIN chs
    THEN [chs EXCEPT ![id].last_done = tstr,
                     ![id].skip_until = NULL,
                     ![id].last_reminded = NULL]
    ELSE chs

\* The row record_completion inserts into completions (completed_at, the
\* timestamp /history orders by, is left out).
CompletionRow(l) ==
    [chore_id     |-> l.id,
     chore_name   |-> l.name,
     assigned_to  |-> l.assigned_to,
     completed_by |-> l.completed_by,
     completed_on |-> l.today]

\* record_completion calls past their SELECT and not yet returned.
InFlight == Cardinality({t \in Threads : pc[t] \in {"rc_update", "rc_insert"}})

\* record_completion up to its SELECT: an unknown id returns (False, "Chore not
\* found."); otherwise the row, today_str() and now are taken.
RcSelect(t, id, completed_by) ==
    /\ IF id \notin DOMAIN chores
       THEN UNCHANGED threadVars
       ELSE /\ Len(completions) + InFlight < MaxCompletions
            /\ pc' = [pc EXCEPT ![t] = "rc_update"]
            /\ loc' = [loc EXCEPT ![t] =
                         [op            |-> "done",
                          id            |-> id,
                          name          |-> chores[id].name,
                          assigned_to   |-> chores[id].assignee,
                          interval_days |-> chores[id].interval_days,
                          completed_by  |-> completed_by,
                          today         |-> TodayStr]]
    /\ UNCHANGED <<clockVars, storeVars, scan, sentToday>>
    /\ eval' = NoEval

\* record_completion's UPDATE of the chore.
RcUpdate(t) ==
    /\ pc[t] = "rc_update"
    /\ chores' = UpdateDone(chores, loc[t].id, loc[t].today)
    /\ pc' = [pc EXCEPT ![t] = "rc_insert"]
    /\ eval' = NoEval
    /\ UNCHANGED <<clockVars, household, seq, completions, sessions, loc, scan,
                   sentToday>>

\* record_completion's INSERT into completions, commit and return.
RcInsert(t) ==
    /\ pc[t] = "rc_insert"
    /\ completions' = Append(completions, CompletionRow(loc[t]))
    /\ pc' = [pc EXCEPT ![t] = "idle"]
    /\ loc' = [loc EXCEPT ![t] = NoLoc]
    /\ eval' = NoEval
    /\ UNCHANGED <<clockVars, household, chores, seq, sessions, scan, sentToday>>

\* ------------------------------------------------------ /done /skip /remove

\* /done <id> [who]: arg is parts[1] (NULL when absent), who is parts[2].
CmdDone(t, u, arg, who) ==
    /\ pc[t] = "idle"
    /\ IF ~IsDigit(arg)
       THEN /\ eval' = NoEval
            /\ UNCHANGED <<clockVars, storeVars, threadVars, scan, sentToday>>
       ELSE RcSelect(t, IntOf(arg), IF who # NULL THEN Strip(who) ELSE FirstName(u))

\* The Done buttons: callback data "done:<id>:self" or "done:<id>:<person>".
CbDone(t, u, id, who) ==
    /\ pc[t] = "idle"
    /\ RcSelect(t, id, IF who = Self THEN FirstName(u) ELSE who)

\* The skip's UPDATE clearing last_reminded as well, as a completion does.
UpdateSkip_ClearsReminded(chs, id, tstr) ==
    IF id \in DOMAIN chs
    THEN [chs EXCEPT ![id].skip_until = tstr, ![id].last_reminded = NULL]
    ELSE chs

\* UPDATE chores SET skip_until=? WHERE id=?
UpdateSkip(chs, id, tstr) ==
    IF id \in DOMAIN chs THEN [chs EXCEPT ![id].skip_until = tstr] ELSE chs

\* /skip <id>.  The SELECT and the UPDATE are one step: a /remove between them
\* leaves the UPDATE without a row, the state a skip followed by the removal has.
CmdSkip(t, arg) ==
    /\ pc[t] = "idle"
    /\ IF ~IsDigit(arg) \/ IntOf(arg) \notin DOMAIN chores
       THEN UNCHANGED chores
       ELSE chores' = UpdateSkip(chores, IntOf(arg), TodayStr)
    /\ eval' = NoEval
    /\ UNCHANGED <<clockVars, household, seq, completions, sessions, threadVars,
                   scan, sentToday>>

\* The Skip button: callback data "skip:<id>".
CbSkip(t, id) ==
    /\ pc[t] = "idle"
    /\ chores' = UpdateSkip(chores, id, TodayStr)
    /\ eval' = NoEval
    /\ UNCHANGED <<clockVars, household, seq, completions, sessions, threadVars,
                   scan, sentToday>>

\* DELETE FROM chores WHERE id=?
DeleteChore(chs, id) == [i \in DOMAIN chs \ {id} |-> chs[i]]

\* /remove taking the chore's rows of the completion log with it.
CmdRemove_Cascade(t, arg) ==
    /\ pc[t] = "idle"
    /\ IF ~IsDigit(arg)
       THEN UNCHANGED <<chores, completions>>
       ELSE /\ chores' = DeleteChore(chores, IntOf(arg))
            /\ completions' = SelectSeq(completions,
                                  LAMBDA row : row.chore_id # IntOf(arg))
    /\ eval' = NoEval
    /\ UNCHANGED <<clockVars, household, seq, sessions, threadVars, scan, sentToday>>

\* /remove <id>
CmdRemove(t, arg) ==
    /\ pc[t] = "idle"
    /\ IF ~IsDigit(arg)
       THEN UNCHANGED chores
       ELSE chores' = DeleteChore(chores, IntOf(arg))
    /\ eval' = NoEval
    /\ UNCHANGED <<clockVars, household, seq, completions, sessions, threadVars,
                   scan, sentToday>>

\* ------------------------------------------------------------ reminder_job

RECURSIVE SortedIds(_)
\* The ids of a set of rows in rowid order, as SELECT ... FROM chores returns them.
SortedIds(ids) ==
    IF ids = {} THEN <<>>
    ELSE LET least == CHOOSE i \in ids : \A j \in ids : i <= j
         IN  <<least>> \o SortedIds(ids \ {least})

\* cur.fetchall() of SELECT id, ... FROM chores
FetchAll(chs) ==
    LET ids == SortedIds(DOMAIN chs)
    IN  [k \in 1..Len(ids) |-> [id |-> ids[k], row |-> chs[ids[k]]]]

\* The loop moves on to the next fetched row, or the job returns.
ScanAdvance(s) ==
    IF s.i + 1 > Len(s.rows) THEN IdleScan ELSE [s EXCEPT !.pc = "loop", !.i = s.i + 1]

\* reminder_job starts: now, tday and the rows are read once.
ScanRead ==
    /\ scan.pc = "idle"
    /\ scan' = IF DOMAIN chores = {} THEN IdleScan
               ELSE [pc   |-> "loop",
                     now  |-> StrfTime(minute),
                     tday |-> TodayStr,
                     rows |-> FetchAll(chores),
                     i    |-> 1]
    /\ eval' = NoEval
    /\ UNCHANGED <<clockVars, storeVars, threadVars, sentToday>>

\* UPDATE chores SET last_reminded=? WHERE id=?
UpdateReminded(chs, id, tday) ==
    IF id \in DOMAIN chs THEN [chs EXCEPT ![id].last_reminded = tday] ELSE chs

\* The filters of the loop body, on the fetched row c: a reminder goes out when
\* none of them continues.
ShouldRemind(c, now, tday, tdy) ==
    /\ c.time = now
    /\ c.last_reminded # tday
    /\ ChoreIsDue(c, tdy)

\* One pass of the loop up to send_to_household, which sends only when CHAT_ID
\* is set.
ScanStep ==
    /\ scan.pc = "loop"
    /\ LET c == scan.rows[scan.i]
       IN  IF ShouldRemind(c.row, scan.now, scan.tday, today)
           THEN /\ scan' = [scan EXCEPT !.pc = "mark"]
                /\ sentToday' =
                     IF chatId /\ sentToday[c.id] < 2
                     THEN [sentToday EXCEPT ![c.id] = @ + 1]
                     ELSE sentToday
           ELSE /\ scan' = ScanAdvance(scan)
                /\ UNCHANGED sentToday
    /\ eval' = NoEval
    /\ UNCHANGED <<clockVars, storeVars, threadVars>>

\* The UPDATE of last_reminded after the send, and the commit.
ScanMark ==
    /\ scan.pc = "mark"
    /\ chores' = UpdateReminded(chores, scan.rows[scan.i].id, scan.tday)
    /\ scan' = ScanAdvance(scan)
    /\ eval' = NoEval
    /\ UNCHANGED <<clockVars, household, seq, completions, sessions, threadVars,
                   sentToday>>

\* ------------------------------------------------------------- daily digest

RECURSIVE DigestLoop_FourDays(_, _, _, _)
\* The digest's loop looking a fourth day ahead.
DigestLoop_FourDays(rows, k, tdy, lists) ==
    IF k > Len(rows) THEN lists
    ELSE LET c == rows[k].row
             d == DaysUntilDue(c, tdy)
         IN  IF c.skip_until = StrfDate(tdy)
             THEN DigestLoop_FourDays(rows, k + 1, tdy, lists)
             ELSE IF d = 0
                  THEN DigestLoop_FourDays(rows, k + 1, tdy,
                           [lists EXCEPT !.due_today = Append(@, rows[k].id)])
                  ELSE IF 1 <= d /\ d <= 4
                       THEN DigestLoop_FourDays(rows, k + 1, tdy,
                                [lists EXCEPT !.due_next_3 =
                                                 Append(@, <<rows[k].id, d>>)])
                       ELSE DigestLoop_FourDays(rows, k + 1, tdy, lists)

RECURSIVE DigestLoop(_, _, _, _)
\* daily_digest_message's loop from fetched row k on: lists.due_today takes the
\* ids put under "Due today", lists.due_next_3 the <<id, d>> put under "Due in
\* next 3 days"; date.today() = tdy.
DigestLoop(rows, k, tdy, lists) ==
    IF k > Len(rows) THEN lists
    ELSE LET c == rows[k].row
             d == DaysUntilDue(c, tdy)
         IN  IF c.skip_until = StrfDate(tdy)
             THEN DigestLoop(rows, k + 1, tdy, lists)
             ELSE IF d = 0
                  THEN DigestLoop(rows, k + 1, tdy,
                           [lists EXCEPT !.due_today = Append(@, rows[k].id)])
                  ELSE IF 1 <= d /\ d <= 3
                       THEN DigestLoop(rows, k + 1, tdy,
                                [lists EXCEPT !.due_next_3 =
                                                 Append(@, <<rows[k].id, d>>)])
                       ELSE DigestLoop(rows, k + 1, tdy, lists)

\* daily_digest_message(): the two lists its text is written from.
DailyDigestMessage(chs, tdy) ==
    DigestLoop(FetchAll(chs), 1, tdy, [due_today |-> <<>>, due_next_3 |-> <<>>])

\* daily_digest_job, run by the scheduler at 00:00: nothing without a CHAT_ID,
\* else the digest goes to the household chat.
DailyDigestJob ==
    /\ minute = 0
    /\ eval' = IF ~chatId THEN NoEval
               ELSE [id     |-> 0,
                     rows   |-> chores,
                     tdy    |-> today,
                     digest |-> DailyDigestMessage(chores, today)]
    /\ UNCHANGED <<clockVars, storeVars, threadVars, scan, sentToday>>

\* ------------------------------------------------------ household, rotation

\* set_people(p1, p2)
SetPeople(p1, p2) == [person1 |-> p1, person2 |-> p2, rotate_index |-> 0]

\* The person next_rotate_person returning the second person first.
RotatePerson_FromOne(h) ==
    IF h.person1 = NULL \/ h.person2 = NULL
    THEN <<"r", "o", "t", "a", "t", "e">>
    ELSE IF h.rotate_index % 2 = 1 THEN h.person1 ELSE h.person2

\* The person next_rotate_person returns for the household row h: the literal
\* "rotate" unless both persons are set.
RotatePerson(h) ==
    IF h.person1 = NULL \/ h.person2 = NULL
    THEN <<"r", "o", "t", "a", "t", "e">>
    ELSE IF h.rotate_index % 2 = 0 THEN h.person1 ELSE h.person2

\* next_rotate_person moving the cursor on with a person unset as well.
RotateAdvance_Always(h, advance) ==
    IF ~advance THEN h ELSE [h EXCEPT !.rotate_index = h.rotate_index + 1]

\* The household row after next_rotate_person(advance) has run on h.
RotateAdvance(h, advance) ==
    IF h.person1 = NULL \/ h.person2 = NULL \/ ~advance
    THEN h
    ELSE [h EXCEPT !.rotate_index = h.rotate_index + 1]

\* One call of next_rotate_person(advance), start to return. eval keeps what
\* the call saw and returned, and k, the number of advancing calls made with
\* both persons set since the cursor was last 0.
NextRotatePersonCall(advance) ==
    /\ \A t \in Threads : pc[t] = "idle"
    /\ advance => household.rotate_index < MaxRotate
    /\ household' = RotateAdvance(household, advance)
    /\ eval' = [id      |-> 0,
                k       |-> (IF "k" \in DOMAIN eval THEN eval.k ELSE 0)
                              + (IF advance /\ household.person1 # NULL
                                            /\ household.person2 # NULL
                                 THEN 1 ELSE 0),
                advance |-> advance,
                before  |-> household,
                person  |-> RotatePerson(household)]
    /\ UNCHANGED <<clockVars, chores, seq, completions, sessions, threadVars,
                   scan, sentToday>>

\* /setpeople <p1> <p2>: parts is message.text.split(maxsplit=2).
CmdSetPeople(t, parts) ==
    /\ pc[t] = "idle"
    /\ IF Len(parts) < 3
       THEN UNCHANGED <<household, eval>>
       ELSE /\ household' = SetPeople(Strip(parts[2]), Strip(parts[3]))
            /\ eval' = NoEval
    /\ UNCHANGED <<clockVars, chores, seq, completions, sessions, threadVars,
                   scan, sentToday>>

\* ------------------------------------------------------------------ sessions

\* clear_session dropping every row of the table.
ClearSession_All(ss, u) == [x \in {} |-> ss[x]]

\* clear_session(chat_id, user_id)
ClearSession(ss, u) == [x \in DOMAIN ss \ {u} |-> ss[x]]

\* save_session(chat_id, user_id, step, data): insert, or update on conflict.
SaveSession(ss, u, step, data) ==
    [x \in DOMAIN ss \cup {u} |-> IF x = u THEN [step |-> step, data |-> data] ELSE ss[x]]

\* data[k] = v on a dict
SetKey(data, k, v) == [x \in DOMAIN data \cup {k} |-> IF x = k THEN v ELSE data[x]]

\* data.get(k)
Get(data, k) == IF k \in DOMAIN data THEN data[k] ELSE NULL

\* /cancel
CmdCancel(t, u) ==
    /\ pc[t] = "idle"
    /\ sessions' = ClearSession(sessions, u)
    /\ eval' = NoEval
    /\ UNCHANGED <<clockVars, household, chores, seq, completions, threadVars,
                   scan, sentToday>>

\* /add
CmdAdd(t, u) ==
    /\ pc[t] = "idle"
    /\ sessions' = SaveSession(ClearSession(sessions, u), u, "ASK_NAME", <<>>)
    /\ eval' = NoEval
    /\ UNCHANGED <<clockVars, household, chores, seq, completions, threadVars,
                   scan, sentToday>>

\* -------------------------------------------------------------------- wizard

VALID_CATEGORIES ==
    {<<"c", "a", "t">>,
     <<"d", "a", "i", "l", "y", "c", "l", "e", "a", "n", "i", "n", "g">>,
     <<"d", "e", "e", "p", "c", "l", "e", "a", "n", "i", "n", "g">>,
     <<"k", "i", "t", "c", "h", "e", "n">>,
     <<"l", "a", "u", "n", "d", "r", "y">>,
     <<"m", "a", "i", "n", "t", "e", "n", "a", "n", "c", "e">>,
     <<"a", "d", "m", "i", "n">>}

\* parse_hhmm taking 24 for an hour.
ParseHhmm_To24(s0) ==
    LET s == Strip(s0)
        wellFormed == /\ Len(s) = 5
                      /\ TwoDigits(SubSeq(s, 1, 2))
                      /\ s[3] = ":"
                      /\ TwoDigits(SubSeq(s, 4, 5))
        hh == IntOf(SubSeq(s, 1, 2))
        mm == IntOf(SubSeq(s, 4, 5))
    IN  IF ~wellFormed THEN [ok |-> FALSE, value |-> NULL]
        ELSE IF ~(0 <= hh /\ hh <= 24 /\ 0 <= mm /\ mm <= 59)
             THEN [ok |-> FALSE, value |-> NULL]
             ELSE [ok |-> TRUE, value |-> <<hh, mm>>]

\* parse_hhmm(s): [ok, value]; ok is FALSE where the code raises ValueError.
ParseHhmm(s0) ==
    LET s == Strip(s0)
        wellFormed == /\ Len(s) = 5
                      /\ TwoDigits(SubSeq(s, 1, 2))
                      /\ s[3] = ":"
                      /\ TwoDigits(SubSeq(s, 4, 5))
        hh == IntOf(SubSeq(s, 1, 2))
        mm == IntOf(SubSeq(s, 4, 5))
    IN  IF ~wellFormed THEN [ok |-> FALSE, value |-> NULL]
        ELSE IF ~(0 <= hh /\ hh <= 23 /\ 0 <= mm /\ mm <= 59)
             THEN [ok |-> FALSE, value |-> NULL]
             ELSE [ok |-> TRUE, value |-> <<hh, mm>>]

\* parse_ddmmyyyy(s): [ok, value]; ok is FALSE where the code raises ValueError
\* (the pattern, or strptime on a day that is not in the calendar).
ParseDdmmyyyy(s0) ==
    LET s == Strip(s0)
        wellFormed == /\ Len(s) = 10
                      /\ TwoDigits(SubSeq(s, 1, 2))
                      /\ s[3] = "-"
                      /\ TwoDigits(SubSeq(s, 4, 5))
                      /\ s[6] = "-"
                      /\ TwoDigits(SubSeq(s, 7, 8))
                      /\ TwoDigits(SubSeq(s, 9, 10))
        d == IntOf(SubSeq(s, 1, 2))
        m == IntOf(SubSeq(s, 4, 5))
        y == IntOf(SubSeq(s, 7, 10))
    IN  IF ~wellFormed THEN [ok |-> FALSE, value |-> NULL]
        ELSE IF ~ValidYmd(y, m, d) THEN [ok |-> FALSE, value |-> NULL]
             ELSE [ok |-> TRUE, value |-> StrfDate(YmdToOrd(y, m, d))]

\* The wizard's INSERT writing the start date as the day last done.
NewChore_Done(data, time_str) ==
    [name          |-> data.name,
     category      |-> Get(data, "category"),
     mode          |-> data.mode,
     assignee      |-> data.assignee,
     interval_days |-> data.interval_days,
     start_date    |-> Get(data, "start_date"),
     time          |-> time_str,
     last_done     |-> Get(data, "start_date"),
     last_reminded |-> NULL,
     skip_until    |-> NULL]

\* The row the wizard's INSERT INTO chores writes.
NewChore(data, time_str) ==
    [name          |-> data.name,
     category      |-> Get(data, "category"),
     mode          |-> data.mode,
     assignee      |-> data.assignee,
     interval_days |-> data.interval_days,
     start_date    |-> Get(data, "start_date"),
     time          |-> time_str,
     last_done     |-> NULL,
     last_reminded |-> NULL,
     skip_until    |-> NULL]

\* INSERT INTO chores: AUTOINCREMENT gives the id after the largest ever used.
InsertChore(chs, id, row) == [i \in DOMAIN chs \cup {id} |-> IF i = id THEN row ELSE chs[i]]

\* wizard_handler at step ASK_NAME
WzName(u, data, text) ==
    /\ IF Len(text) < 2
       THEN UNCHANGED sessions
       ELSE sessions' = SaveSession(sessions, u, "ASK_ASSIGNEE", SetKey(data, "name", text))
    /\ UNCHANGED <<household, chores, seq, threadVars>>

\* wizard_handler at step ASK_ASSIGNEE
WzAssignee(u, data, text) ==
    /\ IF Lower(text) = <<"r", "o", "t", "a", "t", "e">>
       THEN /\ household.rotate_index < MaxRotate
            /\ household' = RotateAdvance(household, TRUE)
            /\ sessions' = SaveSession(sessions, u, "ASK_CATEGORY",
                              SetKey(SetKey(data, "mode", "rotate"),
                                     "assignee", RotatePerson(household)))
       ELSE /\ UNCHANGED household
            /\ sessions' = SaveSession(sessions, u, "ASK_CATEGORY",
                              SetKey(SetKey(data, "mode", "fixed"), "assignee", text))
    /\ UNCHANGED <<chores, seq, threadVars>>

\* wizard_handler at step ASK_CATEGORY
WzCategory(u, data, text) ==
    /\ IF Lower(Strip(text)) \notin VALID_CATEGORIES
       THEN UNCHANGED sessions
       ELSE sessions' = SaveSession(sessions, u, "ASK_INTERVAL",
                           SetKey(data, "category", Lower(Strip(text))))
    /\ UNCHANGED <<household, chores, seq, threadVars>>

\* The interval step letting 0 through.
WzInterval_FromZero(u, data, text) ==
    /\ IF ~IsDigit(text) \/ IntOf(text) < 0 \/ IntOf(text) > 365
       THEN UNCHANGED sessions
       ELSE sessions' = SaveSession(sessions, u, "ASK_START_DATE",
                           SetKey(data, "interval_days", IntOf(text)))
    /\ UNCHANGED <<household, chores, seq, threadVars>>

\* wizard_handler at step ASK_INTERVAL
WzInterval(u, data, text) ==
    /\ IF ~IsDigit(text) \/ IntOf(text) < 1 \/ IntOf(text) > 365
       THEN UNCHANGED sessions
       ELSE sessions' = SaveSession(sessions, u, "ASK_START_DATE",
                           SetKey(data, "interval_days", IntOf(text)))
    /\ UNCHANGED <<household, chores, seq, threadVars>>

\* wizard_handler at step ASK_START_DATE
WzStartDate(u, data, text) ==
    /\ IF Lower(text) = <<"t", "o", "d", "a", "y">>
       THEN sessions' = SaveSession(sessions, u, "ASK_TIME",
                           SetKey(data, "start_date", TodayStr))
       ELSE IF ParseDdmmyyyy(text).ok
            THEN sessions' = SaveSession(sessions, u, "ASK_TIME",
                                SetKey(data, "start_date", ParseDdmmyyyy(text).value))
            ELSE UNCHANGED sessions
    /\ UNCHANGED <<household, chores, seq, threadVars>>

\* wizard_handler at step ASK_TIME, up to the INSERT and its commit; a time
\* parse_hhmm refuses ends in the handler's except clause.
WzTime(t, u, data, text) ==
    /\ IF ParseHhmm(text).ok
       THEN /\ seq < MaxChores
            /\ chores' = InsertChore(chores, seq + 1, NewChore(data, ParseHhmm(text).value))
            /\ seq' = seq + 1
            /\ pc' = [pc EXCEPT ![t] = "wz_clear"]
            /\ loc' = [loc EXCEPT ![t] = [op |-> "wizard", u |-> u]]
       ELSE UNCHANGED <<chores, seq, threadVars>>
    /\ UNCHANGED <<household, sessions>>

\* wizard_handler at step ASK_TIME after the INSERT: clear_session (its DELETE
\* and commit), then the reply.
WzClear(t) ==
    /\ pc[t] = "wz_clear"
    /\ sessions' = ClearSession(sessions, loc[t].u)
    /\ pc' = [pc EXCEPT ![t] = "idle"]
    /\ loc' = [loc EXCEPT ![t] = NoLoc]
    /\ eval' = NoEval
    /\ UNCHANGED <<clockVars, household, chores, seq, completions, scan, sentToday>>

\* wizard_handler: a text message of user u that is not a command.
WizardText(t, u, message_text) ==
    /\ pc[t] = "idle"
    /\ message_text[1] # "/"
    /\ eval' = NoEval
    /\ UNCHANGED <<clockVars, completions, scan, sentToday>>
    /\ IF u \notin DOMAIN sessions
       THEN UNCHANGED <<household, chores, seq, sessions, threadVars>>
       ELSE LET step == sessions[u].step
                data == sessions[u].data
                text == Strip(message_text)
            IN  CASE step = "ASK_NAME" -> WzName(u, data, text)
                  [] step = "ASK_ASSIGNEE" -> WzAssignee(u, data, text)
                  [] step = "ASK_CATEGORY" -> WzCategory(u, data, text)
                  [] step = "ASK_INTERVAL" -> WzInterval(u, data, text)
                  [] step = "ASK_START_DATE" -> WzStartDate(u, data, text)
                  [] step = "ASK_TIME" -> WzTime(t, u, data, text)
                  [] OTHER -> /\ sessions' = ClearSession(sessions, u)
                              /\ UNCHANGED <<household, chores, seq, threadVars>>

\* ------------------------------------- the rotate answer, statement by statement

\* wizard_handler at ASK_ASSIGNEE on the answer "rotate", up to get_people's
\* SELECT in next_rotate_person: the household row read stays with the thread.
\* With a person unset the call returns "rotate" without a write and the
\* session is saved.  eval keeps what the call read and will return, and k,
\* the number of such calls begun with both persons set since the last
\* /setpeople.
WzRotateRead(t, u) ==
    /\ pc[t] = "idle"
    /\ u \in DOMAIN sessions
    /\ sessions[u].step = "ASK_ASSIGNEE"
    /\ household.rotate_index < MaxRotate
    /\ IF household.person1 = NULL \/ household.person2 = NULL
       THEN /\ sessions' = SaveSession(sessions, u, "ASK_CATEGORY",
                               SetKey(SetKey(sessions[u].data, "mode", "rotate"),
                                      "assignee", RotatePerson(household)))
            /\ UNCHANGED threadVars
       ELSE /\ pc' = [pc EXCEPT ![t] = "rot_update"]
            /\ loc' = [loc EXCEPT ![t] = [op   |-> "rotate",
                                          u    |-> u,
                                          data |-> sessions[u].data,
                                          h    |-> household]]
            /\ UNCHANGED sessions
    /\ eval' = IF household.person1 = NULL \/ household.person2 = NULL
               THEN NoEval
               ELSE [id      |-> 0,
                     k       |-> (IF "k" \in DOMAIN eval THEN eval.k ELSE 0) + 1,
                     advance |-> TRUE,
                     before  |-> household,
                     person  |-> RotatePerson(household)]
    /\ UNCHANGED <<clockVars, household, chores, seq, completions, scan, sentToday>>

\* next_rotate_person's UPDATE: rotate_index = idx + 1, idx as read.
WzRotateUpdate(t) ==
    /\ pc[t] = "rot_update"
    /\ household' = [household EXCEPT !.rotate_index = loc[t].h.rotate_index + 1]
    /\ pc' = [pc EXCEPT ![t] = "rot_save"]
    /\ UNCHANGED <<clockVars, chores, seq, completions, sessions, loc, scan, sentToday,
                   eval>>

\* The handler's save_session with the person the call returned.
WzRotateSave(t) ==
    /\ pc[t] = "rot_save"
    /\ sessions' = SaveSession(sessions, loc[t].u, "ASK_CATEGORY",
                       SetKey(SetKey(loc[t].data, "mode", "rotate"),
                              "assignee", RotatePerson(loc[t].h)))
    /\ pc' = [pc EXCEPT ![t] = "idle"]
    /\ loc' = [loc EXCEPT ![t] = NoLoc]
    /\ UNCHANGED <<clockVars, household, chores, seq, completions, scan, sentToday,
                   eval>>

\* --------------------------------------------------------------------- /list

NoBuckets == [overdue |-> <<>>, d03 |-> <<>>, d47 |-> <<>>, d814 |-> <<>>, later |-> <<>>]

\* The bucket cmd_list's loop appends a row to, with date.today() = tdy.
BucketOf(c, tdy) ==
    LET d == DaysUntilDue(c, tdy)
    IN  IF ChoreIsDue(c, tdy) /\ d < 0 THEN "overdue"
        ELSE IF d <= 3 THEN "d03"
        ELSE IF d <= 7 THEN "d47"
        ELSE IF d <= 14 THEN "d814"
        ELSE "later"

RECURSIVE ListLoop(_, _, _, _)
\* cmd_list's loop from fetched row k on: each bucket takes the ids appended to
\* it, in the order fetched.
ListLoop(rows, k, tdy, buckets) ==
    IF k > Len(rows) THEN buckets
    ELSE ListLoop(rows, k + 1, tdy,
             [buckets EXCEPT ![BucketOf(rows[k].row, tdy)] = Append(@, rows[k].id)])

\* The rows cmd_list keeps: all, or those of the category asked for.
ListRows(chs, category_filter) ==
    IF category_filter = NULL THEN FetchAll(chs)
    ELSE SelectSeq(FetchAll(chs),
                   LAMBDA r : (IF r.row.category = NULL
                               THEN <<"a", "d", "m", "i", "n">>
                               ELSE r.row.category) = category_filter)

\* /list [category]: parts is message.text.split(maxsplit=1).  An unknown
\* category and an empty view are answered without buckets.
CmdList(t, parts) ==
    /\ pc[t] = "idle"
    /\ LET category_filter == IF Len(parts) = 2 THEN Lower(Strip(parts[2])) ELSE NULL
           rows == ListRows(chores, category_filter)
       IN  eval' = IF category_filter # NULL /\ category_filter \notin VALID_CATEGORIES
                   THEN NoEval
                   ELSE IF rows = <<>> THEN NoEval
                   ELSE [id      |-> 0,
                         rows    |-> chores,
                         shown   |-> {rows[k].id : k \in 1..Len(rows)},
                         tdy     |-> today,
                         buckets |-> ListLoop(rows, 1, today, NoBuckets)]
    /\ UNCHANGED <<clockVars, storeVars, threadVars, scan, sentToday>>

\* ------------------------------------------------------------------- replies
\* What a handler tells the user, by the message and the store it finds.

\* cmd_done and the Done buttons up to record_completion's SELECT; the success
\* message waits for the completion to return.
CmdDoneReply(arg) ==
    IF ~IsDigit(arg) THEN "Usage: /done <id> [who]"
    ELSE IF IntOf(arg) \notin DOMAIN chores THEN "Chore not found."
         ELSE NoReply

CbDoneReply(id) == IF id \notin DOMAIN chores THEN "Chore not found." ELSE NoReply

\* cmd_done and the Done buttons once record_completion has returned.
RcInsertReply == "marked done"

\* cmd_skip
CmdSkipReply(arg) ==
    IF ~IsDigit(arg) THEN "Usage: /skip <id>"
    ELSE IF IntOf(arg) \notin DOMAIN chores THEN "Chore not found."
         ELSE "Skipped for today."

\* The Skip button answers the same for every id.
CbSkipReply(id) == "Skipped"

\* cmd_remove answers the same for every numeric id.
CmdRemoveReply(arg) == IF ~IsDigit(arg) THEN "Usage: /remove <id>" ELSE "Removed."

CmdAddReply == "Add chore (step 1/6)"

CmdCancelReply == "Cancelled."

\* wizard_handler; "Error" is the except clause's reply.
WizardReply(u, message_text) ==
    IF u \notin DOMAIN sessions THEN NoReply
    ELSE LET step == sessions[u].step
             text == Strip(message_text)
         IN  CASE step = "ASK_NAME" ->
                    IF Len(text) < 2 THEN "Please enter a valid chore name"
                    ELSE "Step 2/6"
               [] step = "ASK_ASSIGNEE" -> "Step 3/6"
               [] step = "ASK_CATEGORY" ->
                    IF Lower(Strip(text)) \notin VALID_CATEGORIES THEN "Invalid category."
                    ELSE "Step 4/6"
               [] step = "ASK_INTERVAL" ->
                    IF ~IsDigit(text) THEN "Please reply with a number of days"
                    ELSE IF IntOf(text) < 1 \/ IntOf(text) > 365
                         THEN "Please choose an interval from 1-365."
                         ELSE "Step 5/6"
               [] step = "ASK_START_DATE" ->
                    IF Lower(text) = <<"t", "o", "d", "a", "y">> \/ ParseDdmmyyyy(text).ok
                    THEN "Step 6/6"
                    ELSE "Error"
               [] step = "ASK_TIME" ->
                    IF ParseHhmm(text).ok THEN NoReply ELSE "Error"
               [] OTHER -> "Session reset."

\* wizard_handler's last reply, after clear_session.
WzClearReply == "Chore added!"

\* --------------------------------------------------------------------- clock

\* The minutes of the day a run observes: the first and the last.
MinuteSamples == <<0, 1439>>

\* First day of a run of Spec: 2024-02-27, two days before a leap day.
Day0 == YmdToOrd(2024, 2, 27)

NoneSent == [i \in 1..MaxChores |-> 0]

\* The wall clock moves on.  The hours from the day's first minute to its last
\* pass while no handler and no scan is under way (each lasts seconds); the
\* minute over midnight may pass at any point.
Tick ==
    /\ IF minute = MinuteSamples[1]
       THEN /\ scan.pc = "idle"
            /\ \A t \in Threads : pc[t] = "idle"
            /\ minute' = MinuteSamples[2]
            /\ UNCHANGED <<today, sentToday>>
       ELSE /\ today < Day0 + MaxDay
            /\ minute' = MinuteSamples[1]
            /\ today' = today + 1
            /\ sentToday' = NoneSent
    /\ eval' = NoEval
    /\ UNCHANGED <<chatId, storeVars, threadVars, scan>>

\* ------------------------------------------------------- the bot at work: Spec
\* The household is set and the first user has walked the wizard up to its
\* last question; from there a handler thread and the reminder scan interleave.

\* Session data as the wizard's first five steps leave it.
SessionData(assignee, interval_days, start_date) ==
    [name          |-> Mop,
     mode          |-> "fixed",
     assignee      |-> assignee,
     category      |-> Cat,
     interval_days |-> interval_days,
     start_date    |-> start_date]

Intervals == {1, 2}

IdArgs == {<<"1">>, <<"2">>, <<"x">>, NULL}

TimeTexts == {<<"0", "0", ":", "0", "0">>, <<"2", "3", ":", "5", "9">>,
              <<"2", "4", ":", "0", "0">>}

Init ==
    /\ today = Day0
    /\ minute = MinuteSamples[1]
    /\ chatId = TRUE
    /\ household = SetPeople(Alice, Bob)
    /\ chores = <<>>
    /\ seq = 0
    /\ completions = <<>>
    /\ \E n \in Intervals :
         sessions = [u \in {"u1"} |->
                       [step |-> "ASK_TIME",
                        data |-> SessionData(Alice, n, StrfDate(Day0))]]
    /\ pc = [t \in Threads |-> "idle"]
    /\ loc = [t \in Threads |-> NoLoc]
    /\ scan = IdleScan
    /\ sentToday = NoneSent
    /\ eval = NoEval
    /\ reply = NoReply

Next ==
    \/ Tick /\ UNCHANGED reply
    \/ ScanRead /\ UNCHANGED reply
    \/ ScanStep /\ UNCHANGED reply
    \/ ScanMark /\ UNCHANGED reply
    \/ \E t \in {"t1"}, u \in Users, text \in TimeTexts :
          WizardText(t, u, text) /\ UNCHANGED reply
    \/ \E t \in {"t1"} :
          WzClear(t) /\ UNCHANGED reply
    \/ \E t \in {"t1"}, u \in Users, arg \in IdArgs, who \in {NULL, Bob} :
          CmdDone(t, u, arg, who) /\ UNCHANGED reply
    \/ \E t \in {"t1"}, u \in Users, id \in 1..seq, who \in {Self, Alice, Bob} :
          CbDone(t, u, id, who) /\ UNCHANGED reply
    \/ \E t \in {"t1"} :
          RcUpdate(t) /\ UNCHANGED reply
    \/ \E t \in {"t1"} :
          RcInsert(t) /\ UNCHANGED reply
    \/ \E t \in {"t1"}, arg \in IdArgs :
          CmdSkip(t, arg) /\ UNCHANGED reply
    \/ \E t \in {"t1"}, id \in 1..seq :
          CbSkip(t, id) /\ UNCHANGED reply
    \/ \E t \in {"t1"}, arg \in IdArgs :
          CmdRemove(t, arg) /\ UNCHANGED reply

Spec == Init /\ [][Next]_vars

\* ------------------------------------------- due dates over a year: SpecDue
\* One chore found in the store at start-up (created by the wizard, or, with
\* no start date, by a revision older than the start_date column), one worker
\* thread, and days that pass between the handlers.

\* First day of a run of SpecDue: 2023-12-30, so that due dates cross the end
\* of the year and, a year on, the leap day of 2024.
DueDay0 == YmdToOrd(2023, 12, 30)

\* The days, counted from DueDay0, on which the bot is used.
DueOffsets == {0, 1, 2, 3, 364, 365, 366, 367, 368}

DueIntervals == {1, 2, 365}

DueStartDates == {NULL, StrfDate(DueDay0 - 1), StrfDate(DueDay0), StrfDate(DueDay0 + 2)}

\* The store's chore at start-up.
StartupChore(interval_days, start_date) ==
    LET data == SessionData(Alice, interval_days, start_date)
    IN  NewChore(IF start_date = NULL
                 THEN [k \in DOMAIN data \ {"start_date"} |-> data[k]]
                 ELSE data,
                 StrfTime(MinuteSamples[1]))

\* Days pass with nobody using the bot: to the next day of DueOffsets.
TickDays ==
    /\ \A t \in Threads : pc[t] = "idle"
    /\ \E k \in DueOffsets :
         /\ DueDay0 + k > today
         /\ \A j \in DueOffsets : DueDay0 + j > today => j >= k
         /\ today' = DueDay0 + k
    /\ eval' = NoEval
    /\ UNCHANGED <<minute, chatId, storeVars, threadVars, scan, sentToday>>

InitDue ==
    /\ today = DueDay0
    /\ minute = MinuteSamples[1]
    /\ chatId = TRUE
    /\ household = SetPeople(Alice, Bob)
    /\ \E n \in DueIntervals, d \in DueStartDates : chores = <<StartupChore(n, d)>>
    /\ seq = 1
    /\ completions = <<>>
    /\ sessions = <<>>
    /\ pc = [t \in Threads |-> "idle"]
    /\ loc = [t \in Threads |-> NoLoc]
    /\ scan = IdleScan
    /\ sentToday = NoneSent
    /\ eval = NoEval
    /\ reply = NoReply

NextDue ==
    \/ TickDays /\ UNCHANGED reply
    \/ \E id \in 1..seq :
          Evaluate("t1", id) /\ UNCHANGED reply
    \/ \E u \in Users, who \in {NULL, Bob} :
          CmdDone("t1", u, <<"1">>, who) /\ UNCHANGED reply
    \/ RcUpdate("t1") /\ UNCHANGED reply
    \/ RcInsert("t1") /\ UNCHANGED reply
    \/ \E arg \in IdArgs :
          CmdSkip("t1", arg) /\ UNCHANGED reply
    \/ \E id \in 1..seq :
          CbSkip("t1", id) /\ UNCHANGED reply

SpecDue == InitDue /\ [][NextDue]_vars

\* ------------------------------------- two handlers at once: SpecRace
\* Both worker threads serve /done, the buttons, /skip, /remove and /setpeople
\* on the two chores the users' wizards have created, shortly before midnight.

InitRace ==
    /\ today = Day0
    /\ minute = MinuteSamples[2]
    /\ chatId = TRUE
    /\ household = SetPeople(Alice, Bob)
    /\ chores = [i \in 1..2 |->
                   NewChore(SessionData(FirstName(IF i = 1 THEN "u1" ELSE "u2"),
                                        1, StrfDate(Day0)),
                            <<23, 59>>)]
    /\ seq = 2
    /\ completions = <<>>
    /\ sessions = <<>>
    /\ pc = [t \in Threads |-> "idle"]
    /\ loc = [t \in Threads |-> NoLoc]
    /\ scan = IdleScan
    /\ sentToday = NoneSent
    /\ eval = NoEval
    /\ reply = NoReply

NextRace ==
    \/ Tick /\ UNCHANGED reply
    \/ \E t \in Threads, u \in Users, arg \in IdArgs :
          CmdDone(t, u, arg, NULL) /\ UNCHANGED reply
    \/ \E t \in Threads, u \in Users, id \in 1..seq :
          CbDone(t, u, id, Self) /\ UNCHANGED reply
    \/ \E t \in Threads :
          RcUpdate(t) /\ UNCHANGED reply
    \/ \E t \in Threads :
          RcInsert(t) /\ UNCHANGED reply
    \/ \E t \in Threads, arg \in IdArgs :
          CmdSkip(t, arg) /\ UNCHANGED reply
    \/ \E t \in Threads, arg \in IdArgs :
          CmdRemove(t, arg) /\ UNCHANGED reply
    \/ \E t \in Threads :
          CmdSetPeople(t, <<"/setpeople", Bob, Alice>>) /\ UNCHANGED reply

SpecRace == InitRace /\ [][NextRace]_vars

\* ---------------------------------------------- rotation: SpecRotate
\* From the freshly created database: /setpeople and calls of
\* next_rotate_person, one after the other.

SetPeopleTexts ==
    {<<"/setpeople", p1, p2>> : p1, p2 \in {Alice, Bob, Carol, Dan}}
        \cup {<<"/setpeople", Alice>>}

InitRotate ==
    /\ today = Day0
    /\ minute = MinuteSamples[1]
    /\ chatId = TRUE
    /\ household = [person1 |-> NULL, person2 |-> NULL, rotate_index |-> 0]
    /\ chores = <<>>
    /\ seq = 0
    /\ completions = <<>>
    /\ sessions = <<>>
    /\ pc = [t \in Threads |-> "idle"]
    /\ loc = [t \in Threads |-> NoLoc]
    /\ scan = IdleScan
    /\ sentToday = NoneSent
    /\ eval = NoEval
    /\ reply = NoReply

NextRotate ==
    \/ \E t \in Threads, parts \in SetPeopleTexts :
          CmdSetPeople(t, parts) /\ UNCHANGED reply
    \/ \E advance \in BOOLEAN :
          NextRotatePersonCall(advance) /\ UNCHANGED reply

SpecRotate == InitRotate /\ [][NextRotate]_vars

\* ------------------------------------------------- the wizard: SpecWizard
\* After /setpeople Alice Bob: both users run /add, /cancel and the wizard's
\* questions, each answering the question asked with one of two texts.

StepTexts(step) ==
    CASE step = "ASK_NAME" -> {Mop, <<"x">>}
      [] step = "ASK_ASSIGNEE" -> {<<"R", "o", "t", "a", "t", "e">>, Alice}
      [] step = "ASK_CATEGORY" -> {Cat, <<"x">>}
      [] step = "ASK_INTERVAL" ->
           {<<"1">>, <<"0">>, <<"3", "6", "6">>, <<"x">>}
      [] step = "ASK_START_DATE" ->
           {<<"t", "o", "d", "a", "y">>,
            <<"2", "7", "-", "0", "2", "-", "2", "0", "2", "4">>,
            <<"3", "1", "-", "0", "2", "-", "2", "0", "2", "4">>,
            <<"x">>}
      [] step = "ASK_TIME" ->
           {<<"0", "0", ":", "0", "0">>, <<"2", "4", ":", "0", "0">>, <<"x">>}
      [] OTHER -> {<<"x">>}

InitWizard ==
    /\ today = Day0
    /\ minute = MinuteSamples[1]
    /\ chatId = TRUE
    /\ household = SetPeople(Alice, Bob)
    /\ chores = <<>>
    /\ seq = 0
    /\ completions = <<>>
    /\ sessions = <<>>
    /\ pc = [t \in Threads |-> "idle"]
    /\ loc = [t \in Threads |-> NoLoc]
    /\ scan = IdleScan
    /\ sentToday = NoneSent
    /\ eval = NoEval
    /\ reply = NoReply

NextWizard ==
    \/ \E t \in Threads, u \in Users :
          CmdAdd(t, u) /\ UNCHANGED reply
    \/ \E t \in Threads, u \in Users :
          CmdCancel(t, u) /\ UNCHANGED reply
    \/ \E t \in Threads, u \in Users :
          \E text \in StepTexts(IF u \in DOMAIN sessions THEN sessions[u].step ELSE "") :
          WizardText(t, u, text) /\ UNCHANGED reply
    \/ \E t \in Threads :
          WzClear(t) /\ UNCHANGED reply

SpecWizard == InitWizard /\ [][NextWizard]_vars

\* ------------------------------------------------ one user's chat: SpecChat
\* From the freshly created database the first user, served by one thread,
\* runs the wizard and the commands and buttons on chore ids; the run records
\* every reply.

ChatIdArgs == {<<"1">>, <<"2">>, <<"x">>, <<"1", "x">>, NULL}

InitChat ==
    /\ today = Day0
    /\ minute = MinuteSamples[1]
    /\ chatId = TRUE
    /\ household = [person1 |-> NULL, person2 |-> NULL, rotate_index |-> 0]
    /\ chores = <<>>
    /\ seq = 0
    /\ completions = <<>>
    /\ sessions = <<>>
    /\ pc = [t \in Threads |-> "idle"]
    /\ loc = [t \in Threads |-> NoLoc]
    /\ scan = IdleScan
    /\ sentToday = NoneSent
    /\ eval = NoEval
    /\ reply = NoReply

NextChat ==
    \/ CmdAdd("t1", "u1") /\ reply' = CmdAddReply
    \/ CmdCancel("t1", "u1") /\ reply' = CmdCancelReply
    \/ \E text \in StepTexts(IF "u1" \in DOMAIN sessions THEN sessions["u1"].step ELSE "") :
          WizardText("t1", "u1", text) /\ reply' = WizardReply("u1", text)
    \/ WzClear("t1") /\ reply' = WzClearReply
    \/ \E arg \in ChatIdArgs :
          CmdDone("t1", "u1", arg, NULL) /\ reply' = CmdDoneReply(arg)
    \/ \E id \in 1..MaxChores :
          CbDone("t1", "u1", id, Self) /\ reply' = CbDoneReply(id)
    \/ RcUpdate("t1") /\ reply' = NoReply
    \/ RcInsert("t1") /\ reply' = RcInsertReply
    \/ \E arg \in ChatIdArgs :
          CmdSkip("t1", arg) /\ reply' = CmdSkipReply(arg)
    \/ \E id \in 1..MaxChores :
          CbSkip("t1", id) /\ reply' = CbSkipReply(id)
    \/ \E arg \in ChatIdArgs :
          CmdRemove("t1", arg) /\ reply' = CmdRemoveReply(arg)

SpecChat == InitChat /\ [][NextChat]_vars

\* ------------------------------------------- the morning digest: SpecDigest
\* Two chores found in the store at start-up, starting from yesterday up to
\* four days ahead; one thread serves /done, /skip and the Skip button, the
\* scheduler sends the digest, and a day passes.

DigestStartDays == {Day0 - 1, Day0, Day0 + 1, Day0 + 3, Day0 + 4}

InitDigest ==
    /\ today = Day0
    /\ minute = MinuteSamples[1]
    /\ chatId = TRUE
    /\ household = SetPeople(Alice, Bob)
    /\ \E d1, d2 \in DigestStartDays, n \in {1, 4} :
         chores = <<NewChore(SessionData(Alice, n, StrfDate(d1)), StrfTime(MinuteSamples[1])),
                    NewChore(SessionData(Bob, 1, StrfDate(d2)), StrfTime(MinuteSamples[1]))>>
    /\ seq = 2
    /\ completions = <<>>
    /\ sessions = <<>>
    /\ pc = [t \in Threads |-> "idle"]
    /\ loc = [t \in Threads |-> NoLoc]
    /\ scan = IdleScan
    /\ sentToday = NoneSent
    /\ eval = NoEval
    /\ reply = NoReply

NextDigest ==
    \/ Tick /\ UNCHANGED reply
    \/ DailyDigestJob /\ UNCHANGED reply
    \/ \E arg \in {<<"1">>, <<"2">>} :
          CmdDone("t1", "u1", arg, NULL) /\ UNCHANGED reply
    \/ RcUpdate("t1") /\ UNCHANGED reply
    \/ RcInsert("t1") /\ UNCHANGED reply
    \/ \E arg \in {<<"1">>, <<"2">>} :
          CmdSkip("t1", arg) /\ UNCHANGED reply
    \/ \E id \in 1..seq :
          CbSkip("t1", id) /\ UNCHANGED reply

SpecDigest == InitDigest /\ [][NextDigest]_vars

\* ------------------------------------------------- the chore list: SpecList
\* Two chores found in the store at start-up, starting from yesterday up to
\* fifteen days ahead; one thread serves /list, /skip and /done, and a day
\* passes.

ListStartDays == {Day0 - 1, Day0, Day0 + 3, Day0 + 4, Day0 + 8, Day0 + 15}

ListTexts == {<<"/list">>, <<"/list", Cat>>, <<"/list", <<"x">>>>}

InitList ==
    /\ today = Day0
    /\ minute = MinuteSamples[1]
    /\ chatId = TRUE
    /\ household = SetPeople(Alice, Bob)
    /\ \E d1, d2 \in ListStartDays, n \in {1, 8} :
         chores = <<NewChore(SessionData(Alice, n, StrfDate(d1)), StrfTime(MinuteSamples[1])),
                    NewChore(SessionData(Bob, 1, StrfDate(d2)), StrfTime(MinuteSamples[1]))>>
    /\ seq = 2
    /\ completions = <<>>
    /\ sessions = <<>>
    /\ pc = [t \in Threads |-> "idle"]
    /\ loc = [t \in Threads |-> NoLoc]
    /\ scan = IdleScan
    /\ sentToday = NoneSent
    /\ eval = NoEval
    /\ reply = NoReply

NextList ==
    \/ Tick /\ UNCHANGED reply
    \/ \E parts \in ListTexts :
          CmdList("t1", parts) /\ UNCHANGED reply
    \/ CmdDone("t1", "u1", <<"1">>, NULL) /\ UNCHANGED reply
    \/ RcUpdate("t1") /\ UNCHANGED reply
    \/ RcInsert("t1") /\ UNCHANGED reply
    \/ \E arg \in {<<"1">>, <<"2">>} :
          CmdSkip("t1", arg) /\ UNCHANGED reply
    \/ \E arg \in {<<"2">>} :
          CmdRemove("t1", arg) /\ UNCHANGED reply

SpecList == InitList /\ [][NextList]_vars

\* ------------------------------------ two rotate answers at once: SpecRotRace
\* Both users have sent /add and a chore name; the two worker threads serve
\* their "rotate" answers and /setpeople.

InitRotRace ==
    /\ today = Day0
    /\ minute = MinuteSamples[1]
    /\ chatId = TRUE
    /\ household \in {[person1 |-> NULL, person2 |-> NULL, rotate_index |-> 0],
                      SetPeople(Alice, Bob)}
    /\ chores = <<>>
    /\ seq = 0
    /\ completions = <<>>
    /\ sessions = [u \in Users |->
                     [step |-> "ASK_ASSIGNEE", data |-> SetKey(<<>>, "name", Mop)]]
    /\ pc = [t \in Threads |-> "idle"]
    /\ loc = [t \in Threads |-> NoLoc]
    /\ scan = IdleScan
    /\ sentToday = NoneSent
    /\ eval = NoEval
    /\ reply = NoReply

NextRotRace ==
    \/ \E t \in Threads, u \in Users :
          WzRotateRead(t, u) /\ UNCHANGED reply
    \/ \E t \in Threads :
          WzRotateUpdate(t) /\ UNCHANGED reply
    \/ \E t \in Threads :
          WzRotateSave(t) /\ UNCHANGED reply
    \/ \E t \in Threads, parts \in {<<"/setpeople", Carol, Dan>>,
                                     <<"/setpeople", Bob, Alice>>} :
          CmdSetPeople(t, parts) /\ UNCHANGED reply

SpecRotRace == InitRotRace /\ [][NextRotRace]_vars

\* ------------------------------------ reminders with or without a chat: SpecRemind
\* Two chores found in the store at start-up, with CHAT_ID set or not in the
\* environment; the reminder scan runs while one thread serves /done, /skip
\* and /remove, and a day passes.

InitRemind ==
    /\ today = Day0
    /\ minute = MinuteSamples[1]
    /\ chatId \in BOOLEAN
    /\ household = SetPeople(Alice, Bob)
    /\ \E d1 \in {Day0 - 1, Day0, Day0 + 1}, m2 \in {1, 2} :
         chores = <<NewChore(SessionData(Alice, 1, StrfDate(d1)), StrfTime(MinuteSamples[1])),
                    NewChore(SessionData(Bob, 2, StrfDate(Day0)), StrfTime(MinuteSamples[m2]))>>
    /\ seq = 2
    /\ completions = <<>>
    /\ sessions = <<>>
    /\ pc = [t \in Threads |-> "idle"]
    /\ loc = [t \in Threads |-> NoLoc]
    /\ scan = IdleScan
    /\ sentToday = NoneSent
    /\ eval = NoEval
    /\ reply = NoReply

NextRemind ==
    \/ Tick /\ UNCHANGED reply
    \/ ScanRead /\ UNCHANGED reply
    \/ ScanStep /\ UNCHANGED reply
    \/ ScanMark /\ UNCHANGED reply
    \/ CmdDone("t1", "u1", <<"1">>, NULL) /\ UNCHANGED reply
    \/ RcUpdate("t1") /\ UNCHANGED reply
    \/ RcInsert("t1") /\ UNCHANGED reply
    \/ CmdSkip("t1", <<"1">>) /\ UNCHANGED reply
    \/ CmdRemove("t1", <<"2">>) /\ UNCHANGED reply

SpecRemind == InitRemind /\ [][NextRemind]_vars

\* ------------------------------------ rotate with and without people: SpecAssign
\* From the freshly created database one user, served by one thread, runs the
\* wizard again and again, with /setpeople before, between or after.

AssignPeopleTexts == {<<"/setpeople", Alice, Bob>>, <<"/setpeople", Carol, Dan>>}

InitAssign ==
    /\ today = Day0
    /\ minute = MinuteSamples[1]
    /\ chatId = TRUE
    /\ household = [person1 |-> NULL, person2 |-> NULL, rotate_index |-> 0]
    /\ chores = <<>>
    /\ seq = 0
    /\ completions = <<>>
    /\ sessions = <<>>
    /\ pc = [t \in Threads |-> "idle"]
    /\ loc = [t \in Threads |-> NoLoc]
    /\ scan = IdleScan
    /\ sentToday = NoneSent
    /\ eval = NoEval
    /\ reply = NoReply

NextAssign ==
    \/ \E parts \in AssignPeopleTexts :
          CmdSetPeople("t1", parts) /\ UNCHANGED reply
    \/ CmdAdd("t1", "u1") /\ UNCHANGED reply
    \/ \E text \in StepTexts(IF "u1" \in DOMAIN sessions THEN sessions["u1"].step ELSE "") :
          WizardText("t1", "u1", text) /\ UNCHANGED reply
    \/ WzClear("t1") /\ UNCHANGED reply

SpecAssign == InitAssign /\ [][NextAssign]_vars

\* ----------------------------------------------------------------- claims

\* The due date a completion on D with interval N stands for, from the row an
\* evaluation saw.
EvalDone == eval.id # 0 /\ eval.row.last_done # NULL
EvalDueOn == StrpDate(eval.row.last_done) + eval.row.interval_days

\* C1, as stated: for a chore last done on D with interval N, next_due_date is
\* D+N whatever the start date, days_until_due on day T is (D+N) - T (0 on D+N,
\* -1 on D+N+1, +1 on D+N-1), and the chore is due on D+N and not due on D+N-1.
C1_AsStated ==
    EvalDone =>
        /\ eval.next_due = EvalDueOn
        /\ eval.days = EvalDueOn - eval.on
        /\ (eval.on = EvalDueOn => eval.days = 0 /\ eval.due)
        /\ (eval.on = EvalDueOn + 1 => eval.days = -1)
        /\ (eval.on = EvalDueOn - 1 => eval.days = 1 /\ ~eval.due)

\* C1, amended: as C1, but on D+N the chore is due exactly when it has not been
\* skipped on that day.
C1_DueDate ==
    EvalDone =>
        /\ eval.next_due = EvalDueOn
        /\ eval.days = EvalDueOn - eval.on
        /\ (eval.on = EvalDueOn =>
              /\ eval.days = 0
              /\ eval.due <=> eval.row.skip_until # StrfDate(eval.on))
        /\ (eval.on = EvalDueOn + 1 => eval.days = -1)
        /\ (eval.on = EvalDueOn - 1 => eval.days = 1 /\ ~eval.due)

\* C1's case: a chore completed a day late, with a start date and a yearly
\* interval, evaluated on its due date and found due.
C1_Witness ==
    /\ EvalDone
    /\ eval.row.interval_days = 365
    /\ eval.row.start_date # NULL
    /\ StrpDate(eval.row.last_done) = DueDay0 + 1
    /\ eval.on = EvalDueOn
    /\ eval.due

\* C2: a chore never completed and not skipped on the day of evaluation is due
\* on every day from its start date on and on none before it, and on every day
\* when it has no start date.
C2_NeverDone ==
    (eval.id # 0 /\ eval.row.last_done = NULL
       /\ eval.row.skip_until # StrfDate(eval.on)) =>
        IF eval.row.start_date = NULL
        THEN eval.due
        ELSE eval.due <=> eval.on >= StrpDate(eval.row.start_date)

\* C2's case: a chore never completed, skipped on an earlier day, evaluated on
\* its start date and found due.
C2_Witness ==
    /\ eval.id # 0
    /\ eval.row.last_done = NULL
    /\ eval.row.skip_until # NULL
    /\ eval.row.skip_until # StrfDate(eval.on)
    /\ eval.row.start_date = StrfDate(eval.on)
    /\ eval.due

\* The ids a run can hold.
Ids == 1..MaxChores

\* A reminder for chore id goes out in this step.
Reminds(id) == sentToday'[id] > sentToday[id]

\* Chore id is skipped in this step (only a skip writes a date to skip_until).
Skips(id) ==
    /\ id \in DOMAIN chores /\ id \in DOMAIN chores'
    /\ chores'[id].skip_until # chores[id].skip_until
    /\ chores'[id].skip_until # NULL

\* C3, as stated: a chore skipped today is not due today and no reminder for it
\* goes out for the rest of the day; on any other day its due status and
\* days_until_due are those of the same chore never skipped.
C3_AsStated ==
    /\ [](\A id \in DOMAIN chores :
            LET c == chores[id]
                unskipped == [c EXCEPT !.skip_until = NULL]
            IN  IF c.skip_until = TodayStr
                THEN ~ChoreIsDue(c, today)
                ELSE /\ ChoreIsDue(c, today) <=> ChoreIsDue(unskipped, today)
                     /\ DaysUntilDue(c, today) = DaysUntilDue(unskipped, today))
    /\ [][\A id \in Ids :
            Reminds(id) => ~(id \in DOMAIN chores /\ chores[id].skip_until = TodayStr)]_vars

C6_AsStated == \A id \in Ids : sentToday[id] <= 1

\* C7, as stated: when a reminder goes out the chore is in the store, its time
\* is the current HH:MM, it is due, not skipped today and not yet reminded
\* today.
C7_AsStated ==
    [][\A id \in Ids :
        Reminds(id) =>
            /\ id \in DOMAIN chores
            /\ chores[id].time = StrfTime(minute)
            /\ ChoreIsDue(chores[id], today)
            /\ chores[id].skip_until # TodayStr
            /\ chores[id].last_reminded # TodayStr]_vars

\* C8, as stated: a skip leaves the chore's last_reminded NULL.
C8_AsStated ==
    [][\A id \in Ids : Skips(id) => chores'[id].last_reminded = NULL]_vars

\* C8, amended: a skip writes skip_until = today and nothing else; last_reminded
\* keeps the value it had (only a completion clears it).
C8_SkipKeepsReminded ==
    [][\A id \in Ids :
        Skips(id) => /\ chores'[id].skip_until = TodayStr
                     /\ chores' = [chores EXCEPT ![id].skip_until = TodayStr]]_vars

\* C8's case: a chore reminded today and then skipped today still carries
\* today's last_reminded.
C8_Witness ==
    \E id \in DOMAIN chores :
        /\ chores[id].skip_until = TodayStr
        /\ chores[id].last_reminded = TodayStr
        /\ scan.pc = "idle"

\* Thread t's record_completion returns (True, ...) in this step.
Returns(t) == pc[t] = "rc_insert" /\ pc'[t] = "idle"

\* C4: a record_completion that found its chore appends exactly one row - the
\* chore's id, its name and assignee as selected (the stored ones while the
\* chore exists), the given completed_by and the call's today - and no step of
\* any completion changes a chore's assignee or mode; rows are appended by
\* nothing else.
C4_OneRow ==
    /\ [](\A t \in Threads :
            (pc[t] \in {"rc_update", "rc_insert"} /\ loc[t].id \in DOMAIN chores) =>
                /\ loc[t].name = chores[loc[t].id].name
                /\ loc[t].assigned_to = chores[loc[t].id].assignee)
    /\ [][/\ \A t \in Threads :
               Returns(t) =>
                   completions' = Append(completions,
                                         [chore_id     |-> loc[t].id,
                                          chore_name   |-> loc[t].name,
                                          assigned_to  |-> loc[t].assigned_to,
                                          completed_by |-> loc[t].completed_by,
                                          completed_on |-> loc[t].today])
          /\ completions' # completions => \E t \in Threads : Returns(t)
          /\ \A t \in Threads :
               (pc[t] = "rc_update" /\ pc'[t] = "rc_insert") => completions' = completions
          /\ \A id \in DOMAIN chores \cap DOMAIN chores' :
               /\ chores'[id].assignee = chores[id].assignee
               /\ chores'[id].mode = chores[id].mode
               /\ chores'[id].name = chores[id].name]_vars

\* C4's case: two completions of chore 1 by different people overlapped (the
\* second was past its SELECT when the first logged its row), and both rows
\* are in the log with the chore still assigned as before.
C4_Witness ==
    /\ Len(completions) = 2
    /\ completions[1].chore_id = 1 /\ completions[2].chore_id = 1
    /\ completions[1].completed_by # completions[2].completed_by
    /\ completions[2].completed_by # completions[2].assigned_to
    /\ 1 \in DOMAIN chores
    /\ chores[1].assignee = completions[1].assigned_to
    /\ \A t \in Threads : pc[t] = "idle"

\* A call of next_rotate_person with both persons set has just returned.
Rotated ==
    /\ "k" \in DOMAIN eval
    /\ eval.before.person1 # NULL
    /\ eval.before.person2 # NULL

\* C9: with both persons set and the cursor started at 0, the k-th advancing
\* call returns person 1 for odd k and person 2 for even k and leaves the
\* cursor one higher (at k); a call with advance=False returns the person the
\* (k+1)-th advancing call will and leaves the household row as it was.
C9_Alternation ==
    Rotated =>
        IF eval.advance
        THEN /\ eval.person = IF eval.k % 2 = 1 THEN eval.before.person1
                                                ELSE eval.before.person2
             /\ household.rotate_index = eval.before.rotate_index + 1
             /\ household.rotate_index = eval.k
             /\ household.person1 = eval.before.person1
             /\ household.person2 = eval.before.person2
        ELSE /\ eval.person = IF (eval.k + 1) % 2 = 1 THEN eval.before.person1
                                                      ELSE eval.before.person2
             /\ household = eval.before
             /\ household.rotate_index = eval.k

\* C9's case: the third advancing call since /setpeople Alice Bob returned
\* Alice.
C9_Witness ==
    /\ Rotated
    /\ eval.advance
    /\ eval.k = 3
    /\ eval.before.person1 = Alice
    /\ eval.before.person2 = Bob
    /\ eval.person = Alice

\* The rotate-mode chores, and a chore's place among them by creation.
RotateIds == {i \in DOMAIN chores : chores[i].mode = "rotate"}
Rank(i) == Cardinality({j \in RotateIds : j <= i})

\* C10, as stated: the rotate-mode chores created since /setpeople P1 P2 are
\* assigned P1, P2, P1, ... in order of creation, whatever wizards were
\* cancelled, restarted or run side by side in between.
C10_AsStated ==
    \A i \in RotateIds :
        chores[i].assignee = IF Rank(i) % 2 = 1 THEN household.person1
                                                ELSE household.person2

\* The wizard's steps in order, and a step's place among them.
StepOrder ==
    <<"ASK_NAME", "ASK_ASSIGNEE", "ASK_CATEGORY", "ASK_INTERVAL", "ASK_START_DATE",
      "ASK_TIME">>
StepIndex(step) == CHOOSE i \in 1..Len(StepOrder) : StepOrder[i] = step

InvalidTexts(step) ==
    CASE step = "ASK_NAME" -> {<<"x">>}
      [] step = "ASK_CATEGORY" -> {<<"x">>}
      [] step = "ASK_INTERVAL" -> {<<"0">>, <<"3", "6", "6">>, <<"x">>}
      [] step = "ASK_START_DATE" ->
           {<<"3", "1", "-", "0", "2", "-", "2", "0", "2", "4">>, <<"x">>}
      [] step = "ASK_TIME" -> {<<"2", "4", ":", "0", "0">>, <<"x">>}
      [] OTHER -> {}

\* Chore ids that are missing or no number.
BadIdArgs == {NULL, <<"x">>, <<"1", "x">>}

\* C12: a wizard reply that fails validation, and /done, /skip or /remove with a
\* missing or non-numeric id, leave household, chores, completions and
\* sessions exactly as they were.
C12_Validation ==
    [][\/ UNCHANGED storeVars
       \/ /\ "u1" \in DOMAIN sessions =>
               \A text \in InvalidTexts(sessions["u1"].step) :
                   ~WizardText("t1", "u1", text)
          /\ \A arg \in BadIdArgs :
               /\ ~CmdDone("t1", "u1", arg, NULL)
               /\ ~CmdSkip("t1", arg)
               /\ ~CmdRemove("t1", arg)
      ]_vars

\* C12's case: with a chore in the store, the wizard has just refused an
\* interval and the session still waits for one.
C12_Witness ==
    /\ reply = "Please choose an interval from 1-365."
    /\ "u1" \in DOMAIN sessions
    /\ sessions["u1"].step = "ASK_INTERVAL"
    /\ DOMAIN chores # {}

\* C13, as stated: the chore's insert and the session's deletion are one
\* step, so no state holds a chore just inserted by a thread whose sender's
\* session is still at ASK_TIME, and no two inserts come from one session.
C13_AsStated ==
    /\ \A t \in Threads :
         pc[t] = "wz_clear" =>
            ~(/\ loc[t].u \in DOMAIN sessions
              /\ sessions[loc[t].u].step = "ASK_TIME")
    /\ \A t1, t2 \in Threads :
         (t1 # t2 /\ pc[t1] = "wz_clear" /\ pc[t2] = "wz_clear") =>
            loc[t1].u # loc[t2].u

\* The second half of C13 alone: two handler threads have each inserted a
\* chore from the same sender's session.
C13_Twice ==
    \E t1, t2 \in Threads :
        /\ t1 # t2
        /\ pc[t1] = "wz_clear" /\ pc[t2] = "wz_clear"
        /\ loc[t1].u = loc[t2].u
        /\ seq >= 2

\* The replies that report a chore as not found.
NotFoundReplies == {"Chore not found."}

\* C14, as stated: /done, /skip, /remove, the Done button and the Skip button
\* on an id no chore has answer that the chore was not found and change nothing
\* in the store.
C14_AsStated ==
    [][/\ \A arg \in {<<"1">>, <<"2">>} :
            IntOf(arg) \notin DOMAIN chores =>
               /\ (CmdDone("t1", "u1", arg, NULL) /\ reply' = CmdDoneReply(arg))
                     => (reply' \in NotFoundReplies /\ UNCHANGED storeVars)
               /\ (CmdSkip("t1", arg) /\ reply' = CmdSkipReply(arg))
                     => (reply' \in NotFoundReplies /\ UNCHANGED storeVars)
               /\ (CmdRemove("t1", arg) /\ reply' = CmdRemoveReply(arg))
                     => (reply' \in NotFoundReplies /\ UNCHANGED storeVars)
       /\ \A id \in 1..MaxChores :
            id \notin DOMAIN chores =>
               /\ (CbDone("t1", "u1", id, Self) /\ reply' = CbDoneReply(id))
                     => (reply' \in NotFoundReplies /\ UNCHANGED storeVars)
               /\ (CbSkip("t1", id) /\ reply' = CbSkipReply(id))
                     => (reply' \in NotFoundReplies /\ UNCHANGED storeVars)
      ]_vars

\* C15: the completion log only grows at its end: every step keeps each row
\* it held, in place and unaltered, whatever the operation (/remove and
\* /setpeople among them).
C15_AppendOnly ==
    [][/\ Len(completions') >= Len(completions)
       /\ \A i \in 1..Len(completions) : completions'[i] = completions[i]
      ]_vars

\* C15's case: the log still holds the completion of a chore that has since
\* been removed, after /setpeople has rewritten the household.
C15_Witness ==
    /\ completions # <<>>
    /\ completions[1].chore_id \notin DOMAIN chores
    /\ household.person1 = Bob

\* The sessions of everyone but u are the same before and after the step.
OthersKept(u) ==
    \A v \in Users \ {u} :
        /\ v \in DOMAIN sessions <=> v \in DOMAIN sessions'
        /\ v \in DOMAIN sessions => sessions'[v] = sessions[v]

\* C16: the session table holds one row per sender, /add leaves the sender
\* with a session at ASK_NAME with empty data, /cancel leaves the sender with
\* none and creates no chore, and no step taken for one sender changes the
\* session of another.
C16_Sessions ==
    [][\/ sessions' = sessions
       \/ \A t \in Threads :
            /\ \A u \in Users :
                 /\ CmdAdd(t, u) =>
                      /\ u \in DOMAIN sessions'
                      /\ sessions'[u] = [step |-> "ASK_NAME", data |-> <<>>]
                      /\ chores' = chores
                      /\ OthersKept(u)
                 /\ CmdCancel(t, u) =>
                      /\ u \notin DOMAIN sessions'
                      /\ chores' = chores /\ seq' = seq
                      /\ OthersKept(u)
                 /\ u \in DOMAIN sessions =>
                      \A text \in StepTexts(sessions[u].step) :
                          WizardText(t, u, text) => OthersKept(u)
            /\ WzClear(t) => OthersKept(loc[t].u)
      ]_vars

\* C16's case: with a finished wizard run's chore in the store and no handler
\* under way, the first user has just sent /add and the second is at the last
\* question.
C16_Witness ==
    /\ DOMAIN sessions = Users
    /\ sessions["u1"] = [step |-> "ASK_NAME", data |-> <<>>]
    /\ sessions["u2"].step = "ASK_TIME"
    /\ seq >= 1
    /\ \A t \in Threads : pc[t] = "idle"

\* C17: every stored chore has a non-empty name, mode fixed or rotate, a
\* category of the list, an interval of 1 to 365 days and a time of day from
\* 00:00 to 23:59.
C17_ValidChores ==
    \A i \in DOMAIN chores :
        /\ Len(chores[i].name) >= 1
        /\ chores[i].mode \in {"fixed", "rotate"}
        /\ chores[i].category \in VALID_CATEGORIES
        /\ chores[i].interval_days \in 1..365
        /\ Len(chores[i].time) = 2
        /\ chores[i].time[1] \in 0..23
        /\ chores[i].time[2] \in 0..59

\* C17's case: the wizard has stored a fixed chore and a rotating one.
C17_Witness ==
    /\ DOMAIN chores = {1, 2}
    /\ {chores[1].mode, chores[2].mode} = {"fixed", "rotate"}

\* The digest just sent, if the step just taken sent one.
Sent == "digest" \in DOMAIN eval

\* The ids a list of the digest names.
Listed(list) == {list[k] : k \in 1..Len(list)}
NextThree == {e[1] : e \in Listed(eval.digest.due_next_3)}

\* days_until_due of the row the digest read, on the day it read it.
DigestDays(i) == DaysUntilDue(eval.rows[i], eval.tdy)
SkippedToday(i) == eval.rows[i].skip_until = StrfDate(eval.tdy)

\* C18: the digest names under "Due today" exactly the chores not skipped
\* today that are due in 0 days, each once, and under "Due in next 3 days"
\* exactly those not skipped today due in 1 to 3 days, each once with that
\* number of days; no chore is in both lists, and none due later than in 3 days
\* is in either.
C18_Digest ==
    Sent =>
      /\ Listed(eval.digest.due_today)
           = {i \in DOMAIN eval.rows : ~SkippedToday(i) /\ DigestDays(i) = 0}
      /\ Listed(eval.digest.due_next_3)
           = {<<i, DigestDays(i)>> : i \in {j \in DOMAIN eval.rows :
                                              ~SkippedToday(j) /\ DigestDays(j) \in 1..3}}
      /\ Len(eval.digest.due_today) = Cardinality(Listed(eval.digest.due_today))
      /\ Len(eval.digest.due_next_3) = Cardinality(NextThree)
      /\ Listed(eval.digest.due_today) \cap NextThree = {}
      /\ \A i \in DOMAIN eval.rows :
           DigestDays(i) > 3 => i \notin Listed(eval.digest.due_today) \cup NextThree

\* C18's case: a digest with the first chore due today and the second in three
\* days.
C18_Witness ==
    /\ Sent
    /\ eval.digest.due_today = <<1>>
    /\ eval.digest.due_next_3 = <<<<2, 3>>>>

\* C18's other case: a digest that leaves out a chore skipped today and one due
\* in four days.
C18_Omitted ==
    /\ Sent
    /\ eval.digest = [due_today |-> <<>>, due_next_3 |-> <<>>]
    /\ \E i, j \in DOMAIN eval.rows :
         /\ SkippedToday(i) /\ DigestDays(i) = 0
         /\ DigestDays(j) = 4

\* C19, as stated: every chore that chore_is_due finds due, the overdue ones
\* among them, is named in the daily digest.
C19_AsStated ==
    Sent =>
      \A i \in DOMAIN eval.rows :
          ChoreIsDue(eval.rows[i], eval.tdy)
             => i \in Listed(eval.digest.due_today) \cup NextThree

\* C20, as stated: a chore whose last_done is today is not due; from its
\* completion on day T it is not due (so not in /today) on any day before
\* T + interval, and no reminder for it goes out during the rest of day T.
C20_AsStated ==
    /\ [](\A id \in DOMAIN chores :
            LET c == chores[id]
            IN  /\ c.last_done = TodayStr => ~ChoreIsDue(c, today)
                /\ (c.last_done # NULL
                      /\ today < StrpDate(c.last_done) + c.interval_days)
                     => ~ChoreIsDue(c, today))
    /\ [][\A id \in Ids :
            Reminds(id) =>
                ~(id \in DOMAIN chores /\ chores[id].last_done = TodayStr)]_vars

\* The list just sent, if the step just taken sent one.
Listing == "buckets" \in DOMAIN eval

\* The ids in a bucket of the list, and the days until due of a row it read.
InBucket(b) == {eval.buckets[b][k] : k \in 1..Len(eval.buckets[b])}
ListDays(i) == DaysUntilDue(eval.rows[i], eval.tdy)

\* C21, as stated: /list puts every chore it shows in exactly one bucket, once,
\* and "Overdue" holds exactly the chores due in less than 0 days, "Due in 0-3
\* days" only those due in 0..3, "Due in 4-7 days" only 4..7, "Due in 8-14
\* days" only 8..14 and "Due later" only those due in more than 14 days,
\* skipped today or not.
C21_AsStated ==
    Listing =>
      /\ \A i \in eval.shown :
           Cardinality({b \in DOMAIN eval.buckets : i \in InBucket(b)}) = 1
      /\ \A b \in DOMAIN eval.buckets :
           /\ Len(eval.buckets[b]) = Cardinality(InBucket(b))
           /\ InBucket(b) \subseteq eval.shown
      /\ InBucket("overdue") = {i \in eval.shown : ListDays(i) < 0}
      /\ \A i \in InBucket("d03") : ListDays(i) \in 0..3
      /\ \A i \in InBucket("d47") : ListDays(i) \in 4..7
      /\ \A i \in InBucket("d814") : ListDays(i) \in 8..14
      /\ \A i \in InBucket("later") : ListDays(i) > 14

\* What of C21 the list does keep: one bucket per chore shown, and the four
\* later buckets bounded above as titled; a chore due in less than 0 days is
\* under "Overdue" unless it is skipped today, and then under "Due in 0-3 days".
C21_Kept ==
    Listing =>
      /\ \A i \in eval.shown :
           Cardinality({b \in DOMAIN eval.buckets : i \in InBucket(b)}) = 1
      /\ InBucket("overdue")
           = {i \in eval.shown : ListDays(i) < 0
                                   /\ eval.rows[i].skip_until # StrfDate(eval.tdy)}
      /\ InBucket("d03")
           = {i \in eval.shown : \/ ListDays(i) \in 0..3
                                 \/ ListDays(i) < 0
                                      /\ eval.rows[i].skip_until = StrfDate(eval.tdy)}
      /\ InBucket("d47") = {i \in eval.shown : ListDays(i) \in 4..7}
      /\ InBucket("d814") = {i \in eval.shown : ListDays(i) \in 8..14}
      /\ InBucket("later") = {i \in eval.shown : ListDays(i) > 14}

\* Thread t is inside next_rotate_person, between its read and the save of
\* the session.
Rotating(t) == pc[t] \in {"rot_update", "rot_save"}

\* C22, as stated: of two "rotate" answers of different users served at once,
\* with the same two persons set, the two sessions get different persons, and
\* every update moves the cursor on by one from where it stands, so that two
\* answers move it by two.
C22_AsStated ==
    /\ [](\A t1, t2 \in Threads :
            (/\ t1 # t2 /\ Rotating(t1) /\ Rotating(t2)
             /\ loc[t1].u # loc[t2].u
             /\ loc[t1].h.person1 = loc[t2].h.person1
             /\ loc[t1].h.person2 = loc[t2].h.person2
             /\ loc[t1].h.person1 # loc[t1].h.person2)
              => RotatePerson(loc[t1].h) # RotatePerson(loc[t2].h))
    /\ [][\A t \in Threads :
            (pc[t] = "rot_update" /\ pc'[t] = "rot_save")
               => household'.rotate_index = household.rotate_index + 1]_vars

\* C22's failure in full: with no /setpeople in between, both users' sessions
\* hold the same person from their "rotate" answers and the cursor stands at 1.
C22_LostUpdate ==
    /\ \A t \in Threads : pc[t] = "idle"
    /\ household = [SetPeople(Alice, Bob) EXCEPT !.rotate_index = 1]
    /\ \A u \in Users :
         /\ u \in DOMAIN sessions
         /\ sessions[u].step = "ASK_CATEGORY"
         /\ sessions[u].data.assignee = Alice

\* The row the scan's loop stands at, as fetched.
ScanRow == scan.rows[scan.i]

\* The fetched row is due, not skipped and not reminded on the scan's day, and
\* its time is the scan's minute.
Remindable(c) ==
    /\ c.time = scan.now
    /\ ChoreIsDue(c, today)
    /\ c.skip_until # scan.tday
    /\ c.last_reminded # scan.tday

\* The loop goes on to the UPDATE of last_reminded in this step.
GoesToMark == scan.pc = "loop" /\ scan'.pc = "mark"

\* The scan's UPDATE of last_reminded runs in this step.
Marks == scan.pc = "mark" /\ scan'.pc # "mark"

\* C23, as stated: a scan in the chore's minute that comes to a chore due, not
\* skipped today and not reminded today sends its reminder and then sets its
\* last_reminded to today; and last_reminded is set only after a reminder for
\* the chore has been delivered to the household chat, which takes a CHAT_ID.
C23_AsStated ==
    [][/\ (scan.pc = "loop" /\ scan' # scan /\ Remindable(ScanRow.row)) =>
             (GoesToMark /\ Reminds(ScanRow.id))
       /\ GoesToMark => (chatId /\ sentToday'[ScanRow.id] >= 1)
       /\ (Marks /\ ScanRow.id \in DOMAIN chores) =>
             chores'[ScanRow.id].last_reminded = scan.tday
       /\ \A id \in DOMAIN chores \cap DOMAIN chores' :
             (chores'[id].last_reminded # chores[id].last_reminded
                /\ chores'[id].last_reminded # NULL)
               => (Marks /\ ScanRow.id = id /\ chatId)
      ]_vars

\* What of C23 the scan does keep, with or without a CHAT_ID: a remindable row
\* takes the loop to the UPDATE, which writes the scan's day to the chore if it
\* is still stored, and nothing else writes a date to last_reminded; with a
\* CHAT_ID, the step before the UPDATE delivers the reminder.
C23_Kept ==
    [][/\ (scan.pc = "loop" /\ scan' # scan /\ Remindable(ScanRow.row)) => GoesToMark
       /\ (GoesToMark /\ chatId) => sentToday'[ScanRow.id] >= 1
       /\ (Marks /\ ScanRow.id \in DOMAIN chores) =>
             chores'[ScanRow.id].last_reminded = scan.tday
       /\ \A id \in DOMAIN chores \cap DOMAIN chores' :
             (chores'[id].last_reminded # chores[id].last_reminded
                /\ chores'[id].last_reminded # NULL)
               => (Marks /\ ScanRow.id = id)
      ]_vars

\* C23's failure in full: without a CHAT_ID a chore carries today's
\* last_reminded and no reminder has gone out.
C23_MarkedUnsent ==
    /\ ~chatId
    /\ \E id \in DOMAIN chores : chores[id].last_reminded = TodayStr
    /\ sentToday = NoneSent

\* C24, as stated: /setpeople P1 P2 stores the two names with the cursor at 0
\* and touches no chore and no completion row, and the first "rotate" answer
\* taken up after it is given the new P1.
C24_AsStated ==
    /\ [][(\E t \in Threads :
             \/ CmdSetPeople(t, <<"/setpeople", Carol, Dan>>)
             \/ CmdSetPeople(t, <<"/setpeople", Bob, Alice>>))
            => /\ household' \in {SetPeople(Carol, Dan), SetPeople(Bob, Alice)}
               /\ chores' = chores
               /\ completions' = completions]_vars
    /\ []((Rotated /\ eval.k = 1) => eval.person = eval.before.person1)

\* What of C24 holds whatever the threads do: a step that changes the
\* household's names leaves the cursor at 0 and every chore and completion row
\* as it was.
C24_Kept ==
    [][(household'.person1 # household.person1
          \/ household'.person2 # household.person2)
         => /\ household'.rotate_index = 0
            /\ chores' = chores
            /\ completions' = completions]_vars

\* The literal next_rotate_person returns with a person unset.
Placeholder == <<"r", "o", "t", "a", "t", "e">>

\* User u's session goes from ASK_ASSIGNEE to ASK_CATEGORY in rotate mode in
\* this step.
AnswersRotate(u) ==
    /\ u \in DOMAIN sessions /\ u \in DOMAIN sessions'
    /\ sessions[u].step = "ASK_ASSIGNEE"
    /\ sessions'[u].step = "ASK_CATEGORY"
    /\ sessions'[u].data.mode = "rotate"

\* C25: a "rotate" answer taken with a household person unset puts the literal
\* "rotate" in the session as assignee and leaves the household row as it
\* was; taken with both set, it puts one of the two persons as set at that
\* moment; a rotate-mode chore is inserted with the assignee its session
\* holds, and no later step changes it.
C25_RotateAssignee ==
    [][/\ \A u \in Users :
            AnswersRotate(u) =>
               IF household.person1 = NULL \/ household.person2 = NULL
               THEN /\ sessions'[u].data.assignee = Placeholder
                    /\ household' = household
               ELSE sessions'[u].data.assignee \in {household.person1, household.person2}
       /\ \A i \in DOMAIN chores' \ DOMAIN chores :
            chores'[i].mode = "rotate" =>
               \E u \in DOMAIN sessions :
                  /\ sessions[u].step = "ASK_TIME"
                  /\ sessions[u].data.mode = "rotate"
                  /\ chores'[i].assignee = sessions[u].data.assignee
       /\ \A i \in DOMAIN chores \cap DOMAIN chores' :
            /\ chores'[i].assignee = chores[i].assignee
            /\ chores'[i].mode = chores[i].mode
      ]_vars

\* C25's case: the first rotate-mode chore, made before any /setpeople, is
\* assigned the literal "rotate"; the second, made after /setpeople Carol Dan,
\* is assigned Carol; the cursor has moved once.
C25_Witness ==
    /\ DOMAIN chores = {1, 2}
    /\ chores[1].mode = "rotate" /\ chores[1].assignee = Placeholder
    /\ chores[2].mode = "rotate" /\ chores[2].assignee = Carol
    /\ household = [SetPeople(Carol, Dan) EXCEPT !.rotate_index = 1]

====
